---------------------------- MODULE Spec2Model ----------------------------
(***************************************************************************)
(* Model of the Bloch-sphere page (src/app/page.tsx): the pure vector and  *)
(* amplitude functions, and the page session that applies them.            *)
(*                                                                         *)
(* Numbers.  A JavaScript number is modelled as <<a, b, d, e>>, standing   *)
(* for (a + b*sqrt(2)) / d * 2^(540*e), with d > 0, gcd(a, b, d) = 1 and   *)
(* e in {-1, 0, 1}.  The field Q(sqrt 2) holds the cosines and sines of    *)
(* the multiples of 45 degrees and the 1/sqrt(2) of the H and T gates, so  *)
(* the arithmetic of the source is carried out without rounding of the     *)
(* mantissa.  The scale e keeps the range of an IEEE-754 double: 2^540 and *)
(* 2^(-540) are doubles, 2^1080 overflows to Infinity and 2^(-1080)        *)
(* underflows to 0, and a sum of two scales is the term of larger scale.   *)
(* d = 0 marks the non-finite values: NaN, Infinity and -Infinity.         *)
(*                                                                         *)
(* The functions of the source are TLA+ functions, applied as f[x, y]: a   *)
(* function application evaluates its arguments once.                      *)
(*                                                                         *)
(* Strings.  The source's non-ASCII characters are spelled in ASCII: the   *)
(* degree sign as "deg", the ket bracket as ">", the minus sign as "-",    *)
(* the em dash as "-".                                                     *)
(***************************************************************************)
EXTENDS Integers, Sequences, FiniteSets, TLC

---------------------------------------------------------------------------
(* Exact arithmetic of JavaScript numbers                                  *)

(* the tuples <<a, b, d, e>> *)
Q ==
    Int \X Int \X Int \X Int

RECURSIVE Gcd
Gcd ==
    [m \in Nat, n \in Nat |-> IF n = 0 THEN m ELSE Gcd[n, m % n]]

Abs ==
    [n \in Int |-> IF n < 0 THEN -n ELSE n]

(* the sign of a + b*sqrt 2 for integers a, b *)
SignAB ==
    [a \in Int, b \in Int |->
        IF a = 0 /\ b = 0 THEN 0
        ELSE IF a >= 0 /\ b >= 0 THEN 1
        ELSE IF a <= 0 /\ b <= 0 THEN -1
        ELSE IF a > 0 THEN (IF a * a > 2 * b * b THEN 1 ELSE -1)
        ELSE (IF a * a < 2 * b * b THEN 1 ELSE -1)]

NaN ==
    <<0, 0, 0, 0>>

Infinity ==
    <<1, 0, 0, 0>>

(* the doubles 2^(-540) and 2^540 *)
Tiny ==
    <<1, 0, 1, -1>>

Huge ==
    <<1, 0, 1, 1>>

(* the canonical tuple of (a + b*sqrt 2) / d * 2^(540*e): a scale beyond   *)
(* the range of a double gives an infinity or 0, d = 0 an infinity or NaN  *)
QN ==
    [a \in Int, b \in Int, d \in Int, e \in Int |->
        LET reduce == [g \in Nat, s \in {-1, 1} |->
                          <<(s * a) \div g, (s * b) \div g, (s * d) \div g, e>>]
            sign == [g \in Nat |-> SignAB[a \div g, b \div g] * (IF d < 0 THEN -1 ELSE 1)]
        IN  IF a = 0 /\ b = 0 THEN (IF d = 0 THEN <<0, 0, 0, 0>> ELSE <<0, 0, 1, 0>>)
            ELSE IF d = 0 \/ e > 1 THEN <<sign[Gcd[Abs[a], Abs[b]]], 0, 0, 0>>
            ELSE IF e < -1 THEN <<0, 0, 1, 0>>
            ELSE reduce[Gcd[Gcd[Abs[a], Abs[b]], Abs[d]], IF d < 0 THEN -1 ELSE 1]]

QInt ==
    [n \in Int |-> <<n, 0, 1, 0>>]

isFinite ==
    [q \in Q |-> q[3] # 0]

QAdd ==
    [p \in Q, q \in Q |->
        IF p = NaN \/ q = NaN THEN NaN
        ELSE IF ~isFinite[p] THEN (IF isFinite[q] \/ q = p THEN p ELSE NaN)
        ELSE IF ~isFinite[q] THEN q
        ELSE IF (p[1] = 0 /\ p[2] = 0) \/ ((q[1] # 0 \/ q[2] # 0) /\ q[4] > p[4]) THEN q
        ELSE IF (q[1] = 0 /\ q[2] = 0) \/ p[4] > q[4] THEN p
        ELSE QN[p[1] * q[3] + q[1] * p[3], p[2] * q[3] + q[2] * p[3], p[3] * q[3], p[4]]]

QNeg ==
    [p \in Q |-> <<-p[1], -p[2], p[3], p[4]>>]

QSub ==
    [p \in Q, q \in Q |-> QAdd[p, QNeg[q]]]

QMul ==
    [p \in Q, q \in Q |->
        IF isFinite[p] /\ isFinite[q]
        THEN QN[p[1] * q[1] + 2 * p[2] * q[2], p[1] * q[2] + p[2] * q[1], p[3] * q[3],
                p[4] + q[4]]
        ELSE <<SignAB[p[1], p[2]] * SignAB[q[1], q[2]], 0, 0, 0>>]

(* p / q: multiply by the conjugate of q's numerator *)
QDiv ==
    [p \in Q, q \in Q |->
        IF isFinite[p] /\ isFinite[q]
        THEN IF q[1] = 0 /\ q[2] = 0
             THEN <<SignAB[p[1], p[2]], 0, 0, 0>>
             ELSE QN[(p[1] * q[1] - 2 * p[2] * q[2]) * q[3],
                     (p[2] * q[1] - p[1] * q[2]) * q[3],
                     p[3] * (q[1] * q[1] - 2 * q[2] * q[2]),
                     p[4] - q[4]]
        ELSE IF isFinite[p] /\ q # NaN THEN <<0, 0, 1, 0>>
        ELSE IF isFinite[q] /\ p # NaN
             THEN <<p[1] * (IF SignAB[q[1], q[2]] < 0 THEN -1 ELSE 1), 0, 0, 0>>
        ELSE NaN]

QSign ==
    [p \in Q |-> SignAB[p[1], p[2]]]

QLess ==
    [p \in Q, q \in Q |-> QSign[QSub[p, q]] < 0]

QMin ==
    [p \in Q, q \in Q |-> IF QLess[q, p] THEN q ELSE p]

QMax ==
    [p \in Q, q \in Q |-> IF QLess[p, q] THEN q ELSE p]

RECURSIVE ISqrtIn
ISqrtIn ==
    [n \in Nat, lo \in Nat, hi \in Nat |->
        IF hi - lo <= 1 THEN lo
        ELSE IF ((lo + hi) \div 2) * ((lo + hi) \div 2) <= n
             THEN ISqrtIn[n, (lo + hi) \div 2, hi]
             ELSE ISqrtIn[n, lo, (lo + hi) \div 2]]

(* floor of the square root of n; 0 for n < 0 *)
ISqrt ==
    [n \in Int |->
        IF n <= 0 THEN 0 ELSE ISqrtIn[n, 0, (IF n < 46340 THEN n ELSE 46340) + 1]]

IsSquare ==
    [n \in Int |-> n >= 0 /\ (LET sq == [k \in Nat |-> k * k = n] IN sq[ISqrt[n]])]

(* the integer pairs <<p, r>> with (p + r*sqrt 2)^2 = A + B*sqrt 2 and *)
(* p + r*sqrt 2 >= 0, given N = sqrt(A^2 - 2 B^2)                        *)
SqrtPairsWith ==
    [A \in Int, B \in Int, N \in Nat |->
        {pr \in UNION {{<<c[1], c[2]>>, <<c[1], -c[2]>>, <<-c[1], c[2]>>, <<-c[1], -c[2]>>} :
                        c \in {<<ISqrt[x \div 2], ISqrt[(A - (x \div 2)) \div 2]>> :
                                  x \in {y \in {A + N, A - N} :
                                            y >= 0 /\ y % 2 = 0 /\ IsSquare[y \div 2]}}} :
            /\ pr[1] * pr[1] + 2 * pr[2] * pr[2] = A
            /\ 2 * pr[1] * pr[2] = B
            /\ SignAB[pr[1], pr[2]] >= 0}]

SqrtPairs ==
    [A \in Int, B \in Int |->
        LET with == [N2 \in Int |->
                        IF ~IsSquare[N2] THEN {} ELSE SqrtPairsWith[A, B, ISqrt[N2]]]
        IN  with[A * A - 2 * B * B]]

(* a factor t for which d * t is a perfect square *)
SqrtScale ==
    [d \in Nat |->
        IF IsSquare[d] THEN 1
        ELSE IF d % 2 = 0 /\ IsSquare[d \div 2] THEN 2
        ELSE d]

(* a number has an exact square root when the root lies in the field; the *)
(* root of Infinity is Infinity, the root of NaN is NaN                   *)
HasSqrt ==
    [q \in Q |->
        LET scaled == [t \in Nat |-> SqrtPairs[q[1] * t, q[2] * t] # {}]
        IN  \/ q \in {NaN, Infinity}
            \/ isFinite[q] /\ q[4] = 0 /\ scaled[SqrtScale[q[3]]]]

(* Math.sqrt on the numbers whose root lies in the field *)
QSqrt ==
    [q \in Q |->
        LET scaled == [t \in Nat |->
                          LET root == [pr \in Int \X Int |->
                                          QN[pr[1], pr[2], ISqrt[q[3] * t], 0]]
                          IN  root[CHOOSE c \in SqrtPairs[q[1] * t, q[2] * t] : TRUE]]
        IN  IF isFinite[q] THEN scaled[SqrtScale[q[3]]]
            ELSE IF q = Infinity THEN Infinity ELSE NaN]

Zero ==
    <<0, 0, 1, 0>>

One ==
    <<1, 0, 1, 0>>

Two ==
    <<2, 0, 1, 0>>

(* Math.sqrt(2) *)
Sqrt2 ==
    <<0, 1, 1, 0>>

---------------------------------------------------------------------------
(* Angles.  An angle in radians is kept as its cosine, its sine and the    *)
(* number k of full turns added to its principal value in (-pi, pi]; the   *)
(* unit (radians or degrees) is immaterial to this representation, so the  *)
(* source's rad <-> deg conversions map an angle to itself.                *)

Axes ==
    {"x", "y", "z"}

Angle ==
    [c : Q, s : Q, k : Int]

CosTable ==
    [m \in {0, 45, 90, 135, 180, 225, 270, 315} |->
        CASE m = 0 -> One
          [] m \in {45, 315} -> <<0, 1, 2, 0>>
          [] m \in {90, 270} -> Zero
          [] m \in {135, 225} -> <<0, -1, 2, 0>>
          [] m = 180 -> <<-1, 0, 1, 0>>]

SinTable ==
    [m \in {0, 45, 90, 135, 180, 225, 270, 315} |-> CosTable[(m + 270) % 360]]

(* toRad: degrees (an integer multiple of 45) to an angle; the cosine and *)
(* the sine of a non-finite angle are NaN                                *)
toRad ==
    [deg \in Q |->
        LET m == deg[1] % 360
            p == IF m > 180 THEN m - 360 ELSE m
        IN  IF isFinite[deg]
            THEN [c |-> CosTable[m], s |-> SinTable[m], k |-> (deg[1] - p) \div 360]
            ELSE [c |-> NaN, s |-> NaN, k |-> 0]]

(* Math.acos on [-1, 1]: the angle of [0, pi] with cosine z *)
Acos ==
    [z \in Q |-> [c |-> z, s |-> QSqrt[QSub[One, QMul[z, z]]], k |-> 0]]

(* Math.atan2(y, x): the principal angle of the direction (x, y); 0 at the origin *)
Atan2 ==
    [y \in Q, x \in Q |->
        LET direction == [rho \in Q |->
                             IF rho = Zero THEN [c |-> One, s |-> Zero, k |-> 0]
                             ELSE [c |-> QDiv[x, rho], s |-> QDiv[y, rho], k |-> 0]]
        IN  direction[QSqrt[QAdd[QMul[x, x], QMul[y, y]]]]]

(* phi < 0 *)
AngleNegative ==
    [a \in Angle |-> a.k < 0 \/ (a.k = 0 /\ QSign[a.s] < 0)]

(* phi + Math.PI *)
PlusTwoPi_halfTurn ==
    [a \in Angle |-> [c |-> QNeg[a.c], s |-> QNeg[a.s], k |-> a.k]]

(* phi + 2 * Math.PI *)
PlusTwoPi ==
    [a \in Angle |-> [a EXCEPT !.k = @ + 1]]

(* theta / 2 for theta in [0, pi] *)
HalfAngle ==
    [a \in Angle |->
        [c |-> QSqrt[QDiv[QAdd[One, a.c], Two]],
         s |-> QSqrt[QDiv[QSub[One, a.c], Two]],
         k |-> 0]]

(* Math.cos and Math.sin have period 2*pi *)
Cos ==
    [a \in Angle |-> a.c]

Sin ==
    [a \in Angle |-> a.s]

---------------------------------------------------------------------------
(* The pure functions of the first page variant                            *)

BlochVector ==
    [x : Q, y : Q, z : Q]

Complex ==
    Q \X Q

Vec ==
    [x \in Q, y \in Q, z \in Q |-> [x |-> x, y |-> y, z |-> z]]

VecI ==
    [x \in Int, y \in Int, z \in Int |->
        [x |-> <<x, 0, 1, 0>>, y |-> <<y, 0, 1, 0>>, z |-> <<z, 0, 1, 0>>]]

clamp ==
    [value \in Q, min \in Q, max \in Q |-> QMin[max, QMax[min, value]]]

(* normalizeState dividing by the squared norm (the Math.sqrt left out) *)
normalizeState_noSqrt ==
    [v \in BlochVector |->
        LET scale == [r \in Q |->
                         IF ~isFinite[r] \/ r = Zero THEN VecI[0, 0, 1]
                         ELSE Vec[QDiv[v.x, r], QDiv[v.y, r], QDiv[v.z, r]]]
        IN  scale[QAdd[QAdd[QMul[v.x, v.x], QMul[v.y, v.y]], QMul[v.z, v.z]]]]

(* normalizeState without the r === 0 test *)
normalizeState_noZeroTest ==
    [v \in BlochVector |->
        LET scale == [r \in Q |->
                         IF ~isFinite[r] THEN VecI[0, 0, 1]
                         ELSE Vec[QDiv[v.x, r], QDiv[v.y, r], QDiv[v.z, r]]]
        IN  scale[QSqrt[QAdd[QAdd[QMul[v.x, v.x], QMul[v.y, v.y]], QMul[v.z, v.z]]]]]

normalizeState ==
    [v \in BlochVector |->
        LET scale == [r \in Q |->
                         IF ~isFinite[r] \/ r = Zero THEN VecI[0, 0, 1]
                         ELSE Vec[QDiv[v.x, r], QDiv[v.y, r], QDiv[v.z, r]]]
        IN  scale[QSqrt[QAdd[QAdd[QMul[v.x, v.x], QMul[v.y, v.y]], QMul[v.z, v.z]]]]]

(* rotateStateAboutAxis with Math.cos and Math.sin exchanged *)
rotateStateAboutAxis_sinForCos ==
    [v \in BlochVector, axis \in Axes, deg \in Q |->
        LET rotate == [c \in Q, s \in Q, x \in Q, y \in Q, z \in Q |->
                IF axis = "x"
                THEN Vec[x, QSub[QMul[y, c], QMul[z, s]], QAdd[QMul[y, s], QMul[z, c]]]
                ELSE IF axis = "y"
                THEN Vec[QAdd[QMul[x, c], QMul[z, s]], y, QAdd[QMul[QNeg[x], s], QMul[z, c]]]
                ELSE Vec[QSub[QMul[x, c], QMul[y, s]], QAdd[QMul[x, s], QMul[y, c]], z]]
        IN  rotate[Sin[toRad[deg]], Cos[toRad[deg]], v.x, v.y, v.z]]

(* rotateStateAboutAxis with z: x * s + z * c in the branch of the y axis *)
rotateStateAboutAxis_ySign ==
    [v \in BlochVector, axis \in Axes, deg \in Q |->
        LET rotate == [c \in Q, s \in Q, x \in Q, y \in Q, z \in Q |->
                IF axis = "x"
                THEN Vec[x, QSub[QMul[y, c], QMul[z, s]], QAdd[QMul[y, s], QMul[z, c]]]
                ELSE IF axis = "y"
                THEN Vec[QAdd[QMul[x, c], QMul[z, s]], y, QAdd[QMul[x, s], QMul[z, c]]]
                ELSE Vec[QSub[QMul[x, c], QMul[y, s]], QAdd[QMul[x, s], QMul[y, c]], z]]
        IN  rotate[Cos[toRad[deg]], Sin[toRad[deg]], v.x, v.y, v.z]]

(* rotateStateAboutAxis turning the other way (the sine negated) *)
rotateStateAboutAxis_leftHanded ==
    [v \in BlochVector, axis \in Axes, deg \in Q |->
        LET rotate == [c \in Q, s \in Q, x \in Q, y \in Q, z \in Q |->
                IF axis = "x"
                THEN Vec[x, QSub[QMul[y, c], QMul[z, s]], QAdd[QMul[y, s], QMul[z, c]]]
                ELSE IF axis = "y"
                THEN Vec[QAdd[QMul[x, c], QMul[z, s]], y, QAdd[QMul[QNeg[x], s], QMul[z, c]]]
                ELSE Vec[QSub[QMul[x, c], QMul[y, s]], QAdd[QMul[x, s], QMul[y, c]], z]]
        IN  rotate[Cos[toRad[deg]], QNeg[Sin[toRad[deg]]], v.x, v.y, v.z]]

rotateStateAboutAxis ==
    [v \in BlochVector, axis \in Axes, deg \in Q |->
        LET rotate == [c \in Q, s \in Q, x \in Q, y \in Q, z \in Q |->
                IF axis = "x"
                THEN Vec[x, QSub[QMul[y, c], QMul[z, s]], QAdd[QMul[y, s], QMul[z, c]]]
                ELSE IF axis = "y"
                THEN Vec[QAdd[QMul[x, c], QMul[z, s]], y, QAdd[QMul[QNeg[x], s], QMul[z, c]]]
                ELSE Vec[QSub[QMul[x, c], QMul[y, s]], QAdd[QMul[x, s], QMul[y, c]], z]]
        IN  rotate[Cos[toRad[deg]], Sin[toRad[deg]], v.x, v.y, v.z]]

cartesianToSpherical ==
    [v \in BlochVector |->
        LET wrap == [phi \in Angle |-> IF AngleNegative[phi] THEN PlusTwoPi[phi] ELSE phi]
            angles == [normalized \in BlochVector |->
                          [theta |-> Acos[QMin[One, QMax[<<-1, 0, 1, 0>>, normalized.z]]],
                           phi |-> wrap[Atan2[normalized.y, normalized.x]]]]
        IN  angles[normalizeState[v]]]

extractQuantumAmplitudes ==
    [state \in BlochVector |->
        LET amplitudes == [half \in Angle, phi \in Angle |->
                              <<<<Cos[half], Zero>>,
                                <<QMul[Sin[half], Cos[phi]], QMul[Sin[half], Sin[phi]]>>>>]
            spherical == [sph \in [theta : Angle, phi : Angle] |->
                             amplitudes[HalfAngle[sph.theta], sph.phi]]
        IN  spherical[cartesianToSpherical[state]]]

extractBlochVectorFromAmplitudes ==
    [alpha \in Complex, beta \in Complex |->
        LET aRe == alpha[1]
            aIm == alpha[2]
            bRe == beta[1]
            bIm == beta[2]
        IN  normalizeState[Vec[
                QMul[Two, QAdd[QMul[aRe, bRe], QMul[aIm, bIm]]],
                QMul[Two, QSub[QMul[aIm, bRe], QMul[aRe, bIm]]],
                QSub[QSub[QAdd[QMul[aRe, aRe], QMul[aIm, aIm]], QMul[bRe, bRe]],
                     QMul[bIm, bIm]]]]]

(* case 'H' with the operands of the difference exchanged *)
gateH_swappedDifference ==
    [alpha \in Complex, beta \in Complex |->
        <<<<QDiv[QAdd[alpha[1], beta[1]], Sqrt2], QDiv[QAdd[alpha[2], beta[2]], Sqrt2]>>,
          <<QDiv[QSub[beta[1], alpha[1]], Sqrt2], QDiv[QSub[beta[2], alpha[2]], Sqrt2]>>>>]

(* case 'H' without the division by Math.sqrt(2) *)
gateH_noScale ==
    [alpha \in Complex, beta \in Complex |->
        <<<<QAdd[alpha[1], beta[1]], QAdd[alpha[2], beta[2]]>>,
          <<QSub[alpha[1], beta[1]], QSub[alpha[2], beta[2]]>>>>]

gateH ==
    [alpha \in Complex, beta \in Complex |->
        <<<<QDiv[QAdd[alpha[1], beta[1]], Sqrt2], QDiv[QAdd[alpha[2], beta[2]], Sqrt2]>>,
          <<QDiv[QSub[alpha[1], beta[1]], Sqrt2], QDiv[QSub[alpha[2], beta[2]], Sqrt2]>>>>]

(* case 'X' returning its arguments in the order received *)
gateX_noSwap ==
    [alpha \in Complex, beta \in Complex |-> <<alpha, beta>>]

gateX ==
    [alpha \in Complex, beta \in Complex |-> <<beta, alpha>>]

gateY ==
    [alpha \in Complex, beta \in Complex |->
        <<<<QNeg[beta[2]], beta[1]>>, <<alpha[2], QNeg[alpha[1]]>>>>]

(* case 'Z' negating only the real part of beta *)
gateZ_realOnly ==
    [alpha \in Complex, beta \in Complex |->
        <<<<alpha[1], alpha[2]>>, <<QNeg[beta[1]], beta[2]>>>>]

gateZ ==
    [alpha \in Complex, beta \in Complex |->
        <<<<alpha[1], alpha[2]>>, <<QNeg[beta[1]], QNeg[beta[2]]>>>>]

gateS ==
    [alpha \in Complex, beta \in Complex |-> <<alpha, <<QNeg[beta[2]], beta[1]>>>>]

gateT ==
    [alpha \in Complex, beta \in Complex |->
        <<alpha, <<QDiv[QAdd[beta[1], QNeg[beta[2]]], Sqrt2],
                   QDiv[QAdd[beta[1], beta[2]], Sqrt2]>>>>]

applyGateToState ==
    [alpha \in Complex, beta \in Complex, gate \in STRING |->
        CASE gate = "H" -> gateH[alpha, beta]
          [] gate = "X" -> gateX[alpha, beta]
          [] gate = "Y" -> gateY[alpha, beta]
          [] gate = "Z" -> gateZ[alpha, beta]
          [] gate = "S" -> gateS[alpha, beta]
          [] gate = "T" -> gateT[alpha, beta]
          [] OTHER -> <<alpha, beta>>]

applyGateToVector ==
    [state \in BlochVector, gate \in STRING |->
        LET decode == [res \in Complex \X Complex |->
                          extractBlochVectorFromAmplitudes[res[1], res[2]]]
            apply == [ab \in Complex \X Complex |->
                         decode[applyGateToState[ab[1], ab[2], gate]]]
        IN  apply[extractQuantumAmplitudes[state]]]

(* The second page variant: the azimuth is the raw Math.atan2 value, and   *)
(* the angles pass through degrees on their way to the amplitudes.         *)
extractBlochAnglesDeg2 ==
    [state \in BlochVector |->
        LET angles == [v \in BlochVector |->
                          <<Acos[QMin[One, QMax[<<-1, 0, 1, 0>>, v.z]]], Atan2[v.y, v.x]>>]
        IN  angles[normalizeState[state]]]

extractQuantumAmplitudes2 ==
    [state \in BlochVector |->
        LET amplitudes == [half \in Angle, phiRad \in Angle |->
                              <<<<Cos[half], Zero>>,
                                <<QMul[Sin[half], Cos[phiRad]], QMul[Sin[half], Sin[phiRad]]>>>>]
            degrees == [angles \in Angle \X Angle |->
                           amplitudes[HalfAngle[angles[1]], angles[2]]]
        IN  degrees[extractBlochAnglesDeg2[state]]]

applyGateToVector2 ==
    [state \in BlochVector, gate \in STRING |->
        LET decode == [res \in Complex \X Complex |->
                          extractBlochVectorFromAmplitudes[res[1], res[2]]]
            apply == [ab \in Complex \X Complex |->
                         decode[applyGateToState[ab[1], ab[2], gate]]]
        IN  apply[extractQuantumAmplitudes2[state]]]

NormSq3 ==
    [v \in BlochVector |-> QAdd[QAdd[QMul[v.x, v.x], QMul[v.y, v.y]], QMul[v.z, v.z]]]

(* the vectors whose spherical angles and half angle lie in the field *)
Encodable ==
    [v \in BlochVector |->
        /\ HasSqrt[NormSq3[v]]
        /\ LET roots == [n \in BlochVector, z \in Q |->
                            /\ HasSqrt[QSub[One, QMul[z, z]]]
                            /\ HasSqrt[QAdd[QMul[n.x, n.x], QMul[n.y, n.y]]]
                            /\ HasSqrt[QDiv[QAdd[One, z], Two]]
                            /\ HasSqrt[QDiv[QSub[One, z], Two]]]
               clamped == [n \in BlochVector |-> roots[n, QMin[One, QMax[<<-1, 0, 1, 0>>, n.z]]]]
           IN  clamped[normalizeState[v]]]

---------------------------------------------------------------------------
(* The page session.  variant selects which of the three pages of the      *)
(* source runs; it is fixed when the page is mounted.                      *)

VARIABLES variant, state, controlsResetKey, lastAction, activeState,
          angleDeg, effectsPending

pageVars ==
    <<variant, state, controlsResetKey, lastAction, activeState,
      angleDeg, effectsPending>>

(* the codec harness: a Bloch vector and an amplitude pair on which the    *)
(* pure functions are applied one call at a time, with the inputs they     *)
(* started from and the calls made so far                                  *)
VARIABLES vec, amp, vec0, amp0, ops

codecVars ==
    <<vec, amp, vec0, amp0, ops>>

(* the update queue of the host: the updates the handlers have passed to  *)
(* the state setters and the next render will apply, and the handler     *)
(* calls made so far                                                     *)
VARIABLES queue, issued

batchVars ==
    <<queue, issued>>

(* The history of the controls since the vector was last established:    *)
(* the vector that reset or set (or the construction of the page) stored, *)
(* whether a gate was applied since, and of the calls the axis controls   *)
(* made to onRotate since: the sum of the deltas of each axis, the axes   *)
(* called for, whether a control made a call while another control was    *)
(* off 0, and the call (axis, delta, angle the control held) of the last  *)
(* input event, if it made one                                            *)
VARIABLES base, gated, passed

controlVars ==
    <<base, gated, passed>>

vars ==
    <<variant, state, controlsResetKey, lastAction, activeState,
      angleDeg, effectsPending, vec, amp, vec0, amp0, ops, queue, issued,
      base, gated, passed>>

Variants ==
    {1, 2, 3}

(* largest denominator of a stored component: bounds the rotation grid *)
MaxDen ==
    2

(* the controls reset key is counted up to this value *)
MaxResetKey ==
    1

(* the values typed or dragged into an axis control *)
RawInputs ==
    {QInt[45], QInt[270], NaN}

(* the tokens passed to applyGate: the six gate buttons and an unknown token *)
GateTokens ==
    {"H", "X", "Y", "Z", "S", "T"}

GateInputs ==
    GateTokens \cup {"Q"}

SetCall ==
    [x \in Int, y \in Int, z \in Int, name \in STRING |->
        [x |-> QInt[x], y |-> QInt[y], z |-> QInt[z], name |-> name]]

(* the six state buttons *)
StateButtons ==
    {SetCall[0, 0, 1, "|0>"], SetCall[0, 0, -1, "|1>"],
     SetCall[1, 0, 0, "|+>"], SetCall[-1, 0, 0, "|->"],
     SetCall[0, 1, 0, "|+i>"], SetCall[0, -1, 0, "|-i>"]}

(* raw triples of the set-state interface that are not of unit length *)
RawSetCalls ==
    {SetCall[0, 0, 2, "|0>"], SetCall[0, -3, 0, "|-i>"], SetCall[0, 0, 0, "|0>"]}

(* a finite triple whose squares underflow *)
ExtremeSetCalls ==
    {[x |-> Tiny, y |-> Zero, z |-> Zero, name |-> "|+>"]}

SetCalls ==
    StateButtons \cup RawSetCalls \cup ExtremeSetCalls

Upper ==
    [a \in Axes |-> CASE a = "x" -> "X" [] a = "y" -> "Y" [] a = "z" -> "Z"]

(* Number.prototype.toFixed(0) and toFixed(3) on integers and on the      *)
(* numbers of scale -1, which round to 0 and keep their sign             *)
toFixed0 ==
    [q \in Q |->
        IF isFinite[q] THEN ToString(q[1])
        ELSE IF q = NaN THEN "NaN"
        ELSE IF q = Infinity THEN "Infinity" ELSE "-Infinity"]

toFixed3 ==
    [q \in Q |->
        IF q[4] < 0 THEN (IF QSign[q] < 0 THEN "-0.000" ELSE "0.000")
        ELSE ToString(q[1]) \o ".000"]

InGrid ==
    [v \in BlochVector |->
        /\ v.x[3] <= MaxDen /\ v.y[3] <= MaxDen /\ v.z[3] <= MaxDen
        /\ v.x[4] = 0 /\ v.y[4] = 0 /\ v.z[4] = 0]

CodecIdle ==
    /\ vec = VecI[0, 0, 1]
    /\ amp = <<<<One, Zero>>, <<Zero, Zero>>>>
    /\ vec0 = VecI[0, 0, 1]
    /\ amp0 = <<<<One, Zero>>, <<Zero, Zero>>>>
    /\ ops = <<>>

PageInit ==
    /\ state = VecI[0, 0, 1]
    /\ controlsResetKey = 0
    /\ lastAction = (IF variant = 1 THEN "System initialized" ELSE "-")
    /\ activeState = (IF variant = 1 THEN "|0>" ELSE "")
    /\ angleDeg = [a \in Axes |-> Zero]
    /\ effectsPending = FALSE

BatchIdle ==
    /\ queue = <<>>
    /\ issued = <<>>

NoneMoved ==
    [sum |-> [a \in {"x", "y", "z"} |-> <<0, 0, 1, 0>>], axes |-> {}, crossed |-> FALSE,
     last |-> <<>>]

ControlIdle ==
    /\ base = VecI[0, 0, 1]
    /\ gated = FALSE
    /\ passed = NoneMoved

(* the page of the first variant *)
Init ==
    /\ variant = 1
    /\ PageInit
    /\ CodecIdle
    /\ BatchIdle
    /\ ControlIdle

(* any of the three pages *)
InitVariants ==
    /\ variant \in Variants
    /\ PageInit
    /\ CodecIdle
    /\ BatchIdle
    /\ ControlIdle

(* applyRotation returning early unless delta > 0 *)
applyRotation_positiveOnly(axis, deltaDeg) ==
    LET delta == IF isFinite[deltaDeg] THEN deltaDeg ELSE Zero
    IN  IF ~QLess[Zero, delta]
        THEN UNCHANGED <<state, lastAction, activeState>>
        ELSE /\ state' = normalizeState[rotateStateAboutAxis[normalizeState[state], axis, delta]]
             /\ lastAction' =
                    (IF variant = 1
                     THEN "ROTATE: R_" \o Upper[axis] \o "(" \o toFixed0[delta] \o "deg)"
                     ELSE "Rotate state about " \o Upper[axis] \o " axis by "
                              \o toFixed0[delta] \o "deg")
             /\ activeState' = (IF variant = 1 THEN "" ELSE activeState)

applyRotation(axis, deltaDeg) ==
    LET delta == IF isFinite[deltaDeg] THEN deltaDeg ELSE Zero
    IN  IF delta = Zero
        THEN UNCHANGED <<state, lastAction, activeState>>
        ELSE /\ state' = normalizeState[rotateStateAboutAxis[normalizeState[state], axis, delta]]
             /\ lastAction' =
                    (IF variant = 1
                     THEN "ROTATE: R_" \o Upper[axis] \o "(" \o toFixed0[delta] \o "deg)"
                     ELSE "Rotate state about " \o Upper[axis] \o " axis by "
                              \o toFixed0[delta] \o "deg")
             /\ activeState' = (IF variant = 1 THEN "" ELSE activeState)

(* the delta taken as the new angle, as if the control were at 0 *)
nextAndDelta_fromZero ==
    [raw \in Q, held \in Q |->
        LET from == [next \in Q |-> [next |-> next, delta |-> next]]
        IN  from[clamp[IF isFinite[raw] THEN raw ELSE Zero, QInt[-180], QInt[180]]]]

(* the first two lines of AxisControl.applyAngle: the angle the control    *)
(* takes and the delta it has for onRotate, from the raw input and the     *)
(* angle the control holds                                                 *)
nextAndDelta ==
    [raw \in Q, held \in Q |->
        LET from == [next \in Q |-> [next |-> next, delta |-> QSub[next, held]]]
        IN  from[clamp[IF isFinite[raw] THEN raw ELSE Zero, QInt[-180], QInt[180]]]]

(* applyAngle without its setAngleDeg(next) *)
AxisControl_applyAngle_noSetAngle(axis, raw) ==
    LET delta == nextAndDelta[raw, angleDeg[axis]].delta
    IN  /\ ~effectsPending
        /\ IF delta # Zero
           THEN applyRotation(axis, delta)
           ELSE UNCHANGED <<state, lastAction, activeState>>
        /\ InGrid[state']
        /\ UNCHANGED <<variant, controlsResetKey, effectsPending, angleDeg>>

(* AxisControl.applyAngle, with the onRotate it calls: what it does to the *)
(* page                                                                    *)
AxisControl_applyAngle(axis, raw) ==
    LET next == nextAndDelta[raw, angleDeg[axis]].next
        delta == nextAndDelta[raw, angleDeg[axis]].delta
    IN  /\ ~effectsPending
        /\ angleDeg' = [angleDeg EXCEPT ![axis] = next]
        /\ IF delta # Zero
           THEN applyRotation(axis, delta)
           ELSE UNCHANGED <<state, lastAction, activeState>>
        /\ InGrid[state']
        /\ UNCHANGED <<variant, controlsResetKey, effectsPending>>

applyAngle(axis, raw) ==
    /\ AxisControl_applyAngle(axis, raw)
    /\ UNCHANGED codecVars
    /\ UNCHANGED batchVars
    /\ UNCHANGED controlVars

(* applyGate without its setActiveState('') *)
Page_applyGate_keepsMarker(gate) ==
    /\ ~effectsPending
    /\ IF variant = 3
       THEN UNCHANGED state
       ELSE /\ Encodable[state]
            /\ state' = (IF variant = 1 THEN applyGateToVector[state, gate]
                                        ELSE applyGateToVector2[state, gate])
    /\ lastAction' = (IF variant = 1 THEN "GATE APPLIED: " \o gate ELSE "Gate: " \o gate)
    /\ UNCHANGED <<variant, controlsResetKey, angleDeg, effectsPending, activeState>>

(* Page.applyGate: what it does to the page *)
Page_applyGate(gate) ==
    /\ ~effectsPending
    /\ IF variant = 3
       THEN UNCHANGED state
       ELSE /\ Encodable[state]
            /\ state' = (IF variant = 1 THEN applyGateToVector[state, gate]
                                        ELSE applyGateToVector2[state, gate])
    /\ lastAction' = (IF variant = 1 THEN "GATE APPLIED: " \o gate ELSE "Gate: " \o gate)
    /\ activeState' = (IF variant = 1 THEN "" ELSE activeState)
    /\ UNCHANGED <<variant, controlsResetKey, angleDeg, effectsPending>>

applyGate(gate) ==
    /\ Page_applyGate(gate)
    /\ UNCHANGED codecVars
    /\ UNCHANGED batchVars
    /\ UNCHANGED controlVars

(* reset without its setState call *)
reset_noSetState ==
    /\ ~effectsPending
    /\ controlsResetKey < MaxResetKey
    /\ controlsResetKey' = controlsResetKey + 1
    /\ lastAction' = (IF variant = 1 THEN "SYSTEM RESET" ELSE "Reset rotations")
    /\ activeState' = (IF variant = 1 THEN "|0>" ELSE activeState)
    /\ effectsPending' = TRUE
    /\ UNCHANGED <<variant, state, angleDeg>>
    /\ UNCHANGED codecVars
    /\ UNCHANGED batchVars
    /\ UNCHANGED controlVars

(* Page.reset: what it does to the page *)
Page_reset ==
    /\ ~effectsPending
    /\ controlsResetKey < MaxResetKey
    /\ state' = VecI[0, 0, 1]
    /\ controlsResetKey' = controlsResetKey + 1
    /\ lastAction' = (IF variant = 1 THEN "SYSTEM RESET" ELSE "Reset rotations")
    /\ activeState' = (IF variant = 1 THEN "|0>" ELSE activeState)
    /\ effectsPending' = TRUE
    /\ UNCHANGED <<variant, angleDeg>>

reset ==
    /\ Page_reset
    /\ UNCHANGED codecVars
    /\ UNCHANGED batchVars
    /\ UNCHANGED controlVars

(* Page.set: what it does to the page *)
Page_set(call) ==
    /\ ~effectsPending
    /\ controlsResetKey < MaxResetKey
    /\ state' = normalizeState[Vec[call.x, call.y, call.z]]
    /\ controlsResetKey' = controlsResetKey + 1
    /\ lastAction' =
           (IF variant = 1
            THEN "STATE SET: " \o call.name
            ELSE "Set state to [" \o toFixed3[call.x] \o ", " \o toFixed3[call.y]
                     \o ", " \o toFixed3[call.z] \o "]")
    /\ activeState' = (IF variant = 1 THEN call.name ELSE activeState)
    /\ effectsPending' = TRUE
    /\ UNCHANGED <<variant, angleDeg>>

set(call) ==
    /\ Page_set(call)
    /\ UNCHANGED codecVars
    /\ UNCHANGED batchVars
    /\ UNCHANGED controlVars

(* the effect of every AxisControl on a new resetKey; React runs pending   *)
(* effects before it handles the next input event                          *)
(* the effect without its setAngleDeg(0) *)
AxisControl_useEffect_noSetAngle ==
    /\ effectsPending
    /\ effectsPending' = FALSE
    /\ UNCHANGED <<variant, state, controlsResetKey, lastAction, activeState, angleDeg>>

AxisControl_useEffect ==
    /\ effectsPending
    /\ angleDeg' = [a \in Axes |-> Zero]
    /\ effectsPending' = FALSE
    /\ UNCHANGED <<variant, state, controlsResetKey, lastAction, activeState>>

resetKeyEffect ==
    /\ AxisControl_useEffect
    /\ UNCHANGED codecVars
    /\ UNCHANGED batchVars
    /\ UNCHANGED controlVars

Next ==
    \/ \E axis \in Axes, raw \in RawInputs : applyAngle(axis, raw)
    \/ \E gate \in GateInputs : applyGate(gate)
    \/ reset
    \/ \E call \in SetCalls : set(call)
    \/ resetKeyEffect

Spec ==
    Init /\ [][Next]_vars

SpecVariants ==
    InitVariants /\ [][Next]_vars

---------------------------------------------------------------------------
(* The page as its user drives it: the three axis controls, the gate       *)
(* buttons, the reset button and the six state buttons, with the history   *)
(* of the controls kept beside the page                                    *)

(* the input events of the axis controls: the axis and the value dragged  *)
(* or typed                                                               *)
ControlInputs ==
    {<<"x", QInt[90]>>, <<"x", QInt[270]>>, <<"x", NaN>>,
     <<"y", QInt[90]>>, <<"y", QInt[270]>>, <<"y", NaN>>,
     <<"z", QInt[90]>>, <<"z", NaN>>}

(* the gate buttons pressed *)
ControlGates ==
    {"H", "S"}

(* an input event of the control of an axis *)
moveControl(axis, raw) ==
    LET delta == nextAndDelta[raw, angleDeg[axis]].delta
    IN  /\ AxisControl_applyAngle(axis, raw)
        /\ IF delta # Zero
           THEN passed' =
                    [sum |-> [passed.sum EXCEPT ![axis] = QAdd[@, delta]],
                     axes |-> passed.axes \cup {axis},
                     crossed |-> passed.crossed
                                    \/ \E a \in Axes \ {axis} : angleDeg[a] # Zero,
                     last |-> <<axis, delta, angleDeg[axis]>>]
           ELSE passed' = [passed EXCEPT !.last = <<>>]
        /\ UNCHANGED <<base, gated>>
        /\ UNCHANGED codecVars
        /\ UNCHANGED batchVars

(* a click on a gate button *)
pressGate(gate) ==
    /\ Page_applyGate(gate)
    /\ gated' = TRUE
    /\ passed' = [passed EXCEPT !.last = <<>>]
    /\ UNCHANGED base
    /\ UNCHANGED codecVars
    /\ UNCHANGED batchVars

(* a click on the reset button *)
pressReset ==
    /\ Page_reset
    /\ base' = state'
    /\ gated' = FALSE
    /\ passed' = NoneMoved
    /\ UNCHANGED codecVars
    /\ UNCHANGED batchVars

(* a click on a state button *)
pressState(call) ==
    /\ Page_set(call)
    /\ base' = state'
    /\ gated' = FALSE
    /\ passed' = NoneMoved
    /\ UNCHANGED codecVars
    /\ UNCHANGED batchVars

NextControls ==
    \/ \E input \in ControlInputs : moveControl(input[1], input[2])
    \/ \E gate \in ControlGates : pressGate(gate)
    \/ pressReset
    \/ \E call \in StateButtons : pressState(call)
    \/ resetKeyEffect

SpecControls ==
    Init /\ [][NextControls]_vars

---------------------------------------------------------------------------
(* The codec harness: the pure functions applied call by call to inputs    *)
(* drawn from bounded sets.  ops[1] tells whether the run started from a   *)
(* vector or from an amplitude pair; the later entries name the calls.     *)

(* number of calls applied to an input *)
MaxOps ==
    2

VectorComponents ==
    LET pos == {One, <<0, 1, 2, 0>>, <<7, 0, 9, 0>>, <<0, 4, 9, 0>>, <<4, 0, 9, 0>>,
                <<3, 0, 5, 0>>, <<4, 0, 5, 0>>, <<1, 0, 3, 0>>, <<0, 2, 3, 0>>}
    IN  {Zero} \cup pos \cup {QNeg[q] : q \in pos}

(* the unit Bloch vectors of the harness *)
CodecVectors ==
    {v \in {Vec[x, y, z] : x \in VectorComponents, y \in VectorComponents,
                           z \in VectorComponents} :
        NormSq3[v] = One /\ Encodable[v]}

AmplitudeComponents ==
    LET pos == {One, <<1, 0, 2, 0>>, <<0, 1, 2, 0>>, <<1, 0, 3, 0>>, <<2, 0, 3, 0>>}
    IN  {Zero} \cup pos \cup {QNeg[q] : q \in pos}

(* |alpha|^2 + |beta|^2 *)
NormSq ==
    [ab \in Complex \X Complex |->
        QAdd[QAdd[QMul[ab[1][1], ab[1][1]], QMul[ab[1][2], ab[1][2]]],
             QAdd[QMul[ab[2][1], ab[2][1]], QMul[ab[2][2], ab[2][2]]]]]

(* the normalized amplitude pairs of the harness *)
NormalizedPairs ==
    {ab \in {<<<<a, b>>, <<c, d>>>> : a \in AmplitudeComponents, b \in AmplitudeComponents,
                                      c \in AmplitudeComponents, d \in AmplitudeComponents} :
        NormSq[ab] = One}

(* amplitude pairs that are not normalized *)
OtherPairs ==
    {<<<<One, Zero>>, <<One, Zero>>>>, <<<<One, One>>, <<Zero, <<1, 0, 2, 0>>>>>>,
     <<<<Zero, Zero>>, <<Zero, Zero>>>>, <<<<<<1, 0, 3, 0>>, Zero>>, <<Zero, <<0, 1, 2, 0>>>>>>}

CodecPairs ==
    NormalizedPairs \cup OtherPairs

PageIdle ==
    /\ variant = 1
    /\ PageInit

InitCodec ==
    /\ PageIdle
    /\ BatchIdle
    /\ ControlIdle
    /\ \/ /\ vec0 \in CodecVectors
          /\ vec = vec0
          /\ amp0 = <<<<One, Zero>>, <<Zero, Zero>>>>
          /\ amp = amp0
          /\ ops = <<"vec">>
       \/ /\ amp0 \in CodecPairs
          /\ amp = amp0
          /\ vec0 = VecI[0, 0, 1]
          /\ vec = vec0
          /\ ops = <<"amp">>

(* the kind of the value the last call produced *)
Holds(kind) ==
    LET last == ops[Len(ops)]
    IN  IF kind = "vec"
        THEN last \in {"vec", "extractBlochVectorFromAmplitudes"}
                 \cup {"applyGateToVector:" \o g : g \in GateInputs}
        ELSE last \in {"amp", "extractQuantumAmplitudes"}
                 \cup {"applyGateToState:" \o g : g \in GateInputs}

CallEncode ==
    /\ Len(ops) <= MaxOps
    /\ Holds("vec")
    /\ Encodable[vec]
    /\ amp' = extractQuantumAmplitudes[vec]
    /\ ops' = Append(ops, "extractQuantumAmplitudes")
    /\ UNCHANGED <<vec, vec0, amp0>>
    /\ UNCHANGED pageVars
    /\ UNCHANGED batchVars
    /\ UNCHANGED controlVars

CallDecode ==
    /\ Len(ops) <= MaxOps
    /\ Holds("amp")
    /\ vec' = extractBlochVectorFromAmplitudes[amp[1], amp[2]]
    /\ ops' = Append(ops, "extractBlochVectorFromAmplitudes")
    /\ UNCHANGED <<amp, vec0, amp0>>
    /\ UNCHANGED pageVars
    /\ UNCHANGED batchVars
    /\ UNCHANGED controlVars

CallGateToState(gate) ==
    /\ Len(ops) <= MaxOps
    /\ Holds("amp")
    /\ amp' = applyGateToState[amp[1], amp[2], gate]
    /\ ops' = Append(ops, "applyGateToState:" \o gate)
    /\ UNCHANGED <<vec, vec0, amp0>>
    /\ UNCHANGED pageVars
    /\ UNCHANGED batchVars
    /\ UNCHANGED controlVars

CallGateToVector(gate) ==
    /\ Len(ops) <= MaxOps
    /\ Holds("vec")
    /\ Encodable[vec]
    /\ vec' = applyGateToVector[vec, gate]
    /\ ops' = Append(ops, "applyGateToVector:" \o gate)
    /\ UNCHANGED <<amp, vec0, amp0>>
    /\ UNCHANGED pageVars
    /\ UNCHANGED batchVars
    /\ UNCHANGED controlVars

NextCodec ==
    \/ CallEncode
    \/ CallDecode
    \/ \E gate \in GateInputs : CallGateToState(gate)
    \/ \E gate \in GateInputs : CallGateToVector(gate)

SpecCodec ==
    InitCodec /\ [][NextCodec]_vars

---------------------------------------------------------------------------
(* The vector harness: normalizeState and rotateStateAboutAxis applied     *)
(* call by call.  ops[1] tells whether the run started from a raw triple   *)
(* or from a unit vector; the later entries name the calls.                *)

RawComponents ==
    {Zero, One, <<-1, 0, 1, 0>>, Two, <<-3, 0, 1, 0>>, <<0, 1, 2, 0>>, <<3, 0, 5, 0>>,
     <<-4, 0, 5, 0>>, NaN, Infinity, <<-1, 0, 0, 0>>, Tiny, <<-1, 0, 1, -1>>, Huge}

(* the triples whose norm lies in the field *)
RawVectors ==
    {v \in {Vec[x, y, z] : x \in RawComponents, y \in RawComponents, z \in RawComponents} :
        HasSqrt[NormSq3[v]]}

(* the angles passed to rotateStateAboutAxis, in degrees *)
RotationDegrees ==
    {<<0, 0, 1, 0>>, <<45, 0, 1, 0>>, <<-45, 0, 1, 0>>, <<90, 0, 1, 0>>, <<-90, 0, 1, 0>>,
     <<180, 0, 1, 0>>, <<-180, 0, 1, 0>>}

InitVector ==
    /\ PageIdle
    /\ BatchIdle
    /\ ControlIdle
    /\ amp0 = <<<<One, Zero>>, <<Zero, Zero>>>>
    /\ amp = amp0
    /\ \/ vec0 \in RawVectors /\ ops = <<"raw">>
       \/ vec0 \in CodecVectors /\ ops = <<"unit">>
    /\ vec = vec0

RotateOp ==
    [axis \in Axes, deg \in Q |-> "rotateStateAboutAxis:" \o axis \o ":" \o ToString(deg[1])]

CallNormalize ==
    /\ Len(ops) <= MaxOps
    /\ HasSqrt[NormSq3[vec]]
    /\ vec' = normalizeState[vec]
    /\ ops' = Append(ops, "normalizeState")
    /\ UNCHANGED <<amp, vec0, amp0>>
    /\ UNCHANGED pageVars
    /\ UNCHANGED batchVars
    /\ UNCHANGED controlVars

CallRotate(axis, deg) ==
    /\ Len(ops) <= MaxOps
    /\ ops[1] = "unit"
    /\ vec' = rotateStateAboutAxis[vec, axis, deg]
    /\ ops' = Append(ops, RotateOp[axis, deg])
    /\ UNCHANGED <<amp, vec0, amp0>>
    /\ UNCHANGED pageVars
    /\ UNCHANGED batchVars
    /\ UNCHANGED controlVars

NextVector ==
    \/ CallNormalize
    \/ \E axis \in Axes, deg \in RotationDegrees : CallRotate(axis, deg)

SpecVector ==
    InitVector /\ [][NextVector]_vars

---------------------------------------------------------------------------
(* The handlers under a batching host.  A handler passes its updates to    *)
(* the state setters, which queue them; the next render applies the queue  *)
(* in order, an updater function to the result of the update before it.    *)
(* issued records every handler call, with its arguments.                  *)

(* number of handler calls in a run *)
MaxIssued ==
    3

(* the arguments (axis, deltaDeg) passed to applyRotation *)
RotationCalls ==
    {<<"x", <<90, 0, 1, 0>>>>, <<"y", <<90, 0, 1, 0>>>>, <<"x", <<45, 0, 1, 0>>>>,
     <<"z", <<45, 0, 1, 0>>>>, <<"z", <<0, 0, 1, 0>>>>, <<"y", NaN>>, <<"z", Infinity>>,
     <<"x", <<-1, 0, 0, 0>>>>}

BatchGates ==
    {"H", "S"}

BatchSetCalls ==
    {SetCall[1, 0, 0, "|+>"], SetCall[0, 0, 2, "|0>"]}

(* what setState receives: an updater function of the previous vector, or  *)
(* a vector; "keep" stands for a handler that does not call setState       *)
Updaters ==
    ({"rotate"} \X Axes \X Q) \cup ({"gate"} \X STRING) \cup ({"value"} \X BlochVector)
        \cup {<<"keep">>}

applyUpdater ==
    [u \in Updaters, prev \in BlochVector |->
        CASE u[1] = "rotate" ->
                 normalizeState[rotateStateAboutAxis[normalizeState[prev], u[2], u[3]]]
          [] u[1] = "gate" -> applyGateToVector[prev, u[2]]
          [] u[1] = "value" -> u[2]
          [] u[1] = "keep" -> prev]

RECURSIVE renderState
renderState ==
    [q \in Seq(Updaters), prev \in BlochVector |->
        IF q = <<>> THEN prev ELSE renderState[Tail(q), applyUpdater[Head(q), prev]]]

(* the vector the queued updates lead to *)
pendingState ==
    renderState[[i \in DOMAIN queue |-> queue[i].state], state]

(* Number.isFinite(deltaDeg) ? deltaDeg : 0, taken as it is *)
finiteOrZero_unchecked ==
    [deltaDeg \in Q |-> deltaDeg]

finiteOrZero ==
    [deltaDeg \in Q |-> IF isFinite[deltaDeg] THEN deltaDeg ELSE Zero]

Enqueue(updater, key, action, active) ==
    queue' = Append(queue, [state |-> updater, key |-> key,
                            lastAction |-> action, activeState |-> active])

(* applyRotation passing setState the rotation of the vector of the last   *)
(* render, in place of an updater of the previous vector                   *)
queueRotation_renderedVector(axis, deltaDeg) ==
    /\ ~effectsPending
    /\ Len(issued) < MaxIssued
    /\ issued' = Append(issued, <<"rotate", axis, deltaDeg>>)
    /\ IF finiteOrZero[deltaDeg] = Zero
       THEN UNCHANGED queue
       ELSE /\ InGrid[applyUpdater[<<"rotate", axis, finiteOrZero[deltaDeg]>>, pendingState]]
            /\ Enqueue(<<"value", applyUpdater[<<"rotate", axis, finiteOrZero[deltaDeg]>>,
                                               state]>>, 0,
                       IF variant = 1
                       THEN "ROTATE: R_" \o Upper[axis] \o "("
                                \o toFixed0[finiteOrZero[deltaDeg]] \o "deg)"
                       ELSE "Rotate state about " \o Upper[axis] \o " axis by "
                                \o toFixed0[finiteOrZero[deltaDeg]] \o "deg",
                       IF variant = 1 THEN "" ELSE activeState)
    /\ UNCHANGED pageVars
    /\ UNCHANGED codecVars
    /\ UNCHANGED controlVars

queueRotation(axis, deltaDeg) ==
    /\ ~effectsPending
    /\ Len(issued) < MaxIssued
    /\ issued' = Append(issued, <<"rotate", axis, deltaDeg>>)
    /\ IF finiteOrZero[deltaDeg] = Zero
       THEN UNCHANGED queue
       ELSE /\ InGrid[applyUpdater[<<"rotate", axis, finiteOrZero[deltaDeg]>>, pendingState]]
            /\ Enqueue(<<"rotate", axis, finiteOrZero[deltaDeg]>>, 0,
                       IF variant = 1
                       THEN "ROTATE: R_" \o Upper[axis] \o "("
                                \o toFixed0[finiteOrZero[deltaDeg]] \o "deg)"
                       ELSE "Rotate state about " \o Upper[axis] \o " axis by "
                                \o toFixed0[finiteOrZero[deltaDeg]] \o "deg",
                       IF variant = 1 THEN "" ELSE activeState)
    /\ UNCHANGED pageVars
    /\ UNCHANGED codecVars
    /\ UNCHANGED controlVars

(* applyGate passing setState the gate applied to the vector of the last   *)
(* render, in place of an updater of the previous vector                   *)
queueGate_renderedVector(gate) ==
    /\ ~effectsPending
    /\ Len(issued) < MaxIssued
    /\ issued' = Append(issued, <<"gate", gate>>)
    /\ Encodable[state]
    /\ Encodable[pendingState]
    /\ Enqueue(<<"value", applyGateToVector[state, gate]>>, 0,
               IF variant = 1 THEN "GATE APPLIED: " \o gate ELSE "Gate: " \o gate,
               IF variant = 1 THEN "" ELSE activeState)
    /\ UNCHANGED pageVars
    /\ UNCHANGED codecVars
    /\ UNCHANGED controlVars

queueGate(gate) ==
    /\ ~effectsPending
    /\ Len(issued) < MaxIssued
    /\ issued' = Append(issued, <<"gate", gate>>)
    /\ IF variant = 3
       THEN Enqueue(<<"keep">>, 0, "Gate: " \o gate, activeState)
       ELSE /\ Encodable[pendingState]
            /\ Enqueue(<<"gate", gate>>, 0,
                       IF variant = 1 THEN "GATE APPLIED: " \o gate ELSE "Gate: " \o gate,
                       IF variant = 1 THEN "" ELSE activeState)
    /\ UNCHANGED pageVars
    /\ UNCHANGED codecVars
    /\ UNCHANGED controlVars

queueReset ==
    /\ ~effectsPending
    /\ Len(issued) < MaxIssued
    /\ issued' = Append(issued, <<"reset">>)
    /\ Enqueue(<<"value", VecI[0, 0, 1]>>, 1,
               IF variant = 1 THEN "SYSTEM RESET" ELSE "Reset rotations",
               IF variant = 1 THEN "|0>" ELSE activeState)
    /\ UNCHANGED pageVars
    /\ UNCHANGED codecVars
    /\ UNCHANGED controlVars

queueSet(call) ==
    /\ ~effectsPending
    /\ Len(issued) < MaxIssued
    /\ issued' = Append(issued, <<"set", call>>)
    /\ Enqueue(<<"value", normalizeState[Vec[call.x, call.y, call.z]]>>, 1,
               IF variant = 1
               THEN "STATE SET: " \o call.name
               ELSE "Set state to [" \o toFixed3[call.x] \o ", " \o toFixed3[call.y]
                        \o ", " \o toFixed3[call.z] \o "]",
               IF variant = 1 THEN call.name ELSE activeState)
    /\ UNCHANGED pageVars
    /\ UNCHANGED codecVars
    /\ UNCHANGED controlVars

(* the render that follows the handlers: every state takes its queued      *)
(* updates, and a changed reset key schedules the effect of the controls   *)
render ==
    /\ queue # <<>>
    /\ state' = pendingState
    /\ controlsResetKey' =
           controlsResetKey + Cardinality({i \in DOMAIN queue : queue[i].key = 1})
    /\ lastAction' = queue[Len(queue)].lastAction
    /\ activeState' = queue[Len(queue)].activeState
    /\ effectsPending' = (\E i \in DOMAIN queue : queue[i].key = 1)
    /\ queue' = <<>>
    /\ UNCHANGED <<variant, angleDeg, issued>>
    /\ UNCHANGED codecVars
    /\ UNCHANGED controlVars

NextBatch ==
    \/ \E call \in RotationCalls : queueRotation(call[1], call[2])
    \/ \E gate \in BatchGates : queueGate(gate)
    \/ queueReset
    \/ \E call \in BatchSetCalls : queueSet(call)
    \/ render
    \/ resetKeyEffect

SpecBatch ==
    Init /\ [][NextBatch]_vars

---------------------------------------------------------------------------
(* Complex arithmetic used to state the properties                         *)

CMul ==
    [u \in Complex, w \in Complex |->
        <<QSub[QMul[u[1], w[1]], QMul[u[2], w[2]]], QAdd[QMul[u[1], w[2]], QMul[u[2], w[1]]]>>]

CSub ==
    [u \in Complex, w \in Complex |-> <<QSub[u[1], w[1]], QSub[u[2], w[2]]>>]

CAdd ==
    [u \in Complex, w \in Complex |-> <<QAdd[u[1], w[1]], QAdd[u[2], w[2]]>>]

CNeg ==
    [u \in Complex |-> <<QNeg[u[1]], QNeg[u[2]]>>]

CConj ==
    [u \in Complex |-> <<u[1], QNeg[u[2]]>>]

CScale ==
    [q \in Q, u \in Complex |-> <<QMul[q, u[1]], QMul[q, u[2]]>>]

ImagUnit ==
    <<Zero, One>>

(* exp(i*pi/4) *)
EighthTurn ==
    <<<<0, 1, 2, 0>>, <<0, 1, 2, 0>>>>

InvSqrt2 ==
    <<0, 1, 2, 0>>

(* <X>, <Y>, <Z> of the state alpha|0> + beta|1> *)
PauliVector ==
    [ab \in Complex \X Complex |->
        LET vector == [c \in Complex |->
                Vec[QMul[Two, c[1]], QMul[Two, c[2]],
                    QSub[QAdd[QMul[ab[1][1], ab[1][1]], QMul[ab[1][2], ab[1][2]]],
                         QAdd[QMul[ab[2][1], ab[2][1]], QMul[ab[2][2], ab[2][2]]]]]]
        IN  vector[CMul[CConj[ab[1]], ab[2]]]]

(* p = u * q for one complex number u of modulus 1 *)
UpToGlobalPhase ==
    [p \in Complex \X Complex, q \in Complex \X Complex |->
        /\ CSub[CMul[p[1], q[2]], CMul[p[2], q[1]]] = <<Zero, Zero>>
        /\ NormSq[p] = NormSq[q]]

StateGateOps ==
    {"applyGateToState:" \o g : g \in GateInputs}

North ==
    VecI[0, 0, 1]

BasisVectors ==
    {VecI[0, 0, 1], VecI[0, 0, -1], VecI[1, 0, 0], VecI[-1, 0, 0], VecI[0, 1, 0], VecI[0, -1, 0]}

---------------------------------------------------------------------------
(* Properties                                                              *)

(* C1: for every unit Bloch vector v, extractQuantumAmplitudes followed by *)
(* extractBlochVectorFromAmplitudes returns v.                             *)
C1_VectorRoundTrip ==
    ops = <<"vec", "extractQuantumAmplitudes", "extractBlochVectorFromAmplitudes">>
        => vec = vec0

(* C2: applying a gate with an unknown token leaves the session's Bloch    *)
(* vector unchanged.                                                       *)
C2_UnknownGateKeepsVector ==
    [][applyGate("Q") => state' = state]_vars

(* C3: for a normalized amplitude pair, extractBlochVectorFromAmplitudes   *)
(* returns the Pauli expectation values x = 2 Re(conj(alpha) beta),        *)
(* y = 2 Im(conj(alpha) beta), z = |alpha|^2 - |beta|^2.                   *)
C3_PauliExpectation ==
    (ops = <<"amp", "extractBlochVectorFromAmplitudes">> /\ NormSq[amp0] = One)
        => vec = PauliVector[amp0]

(* C4: in every reachable session state the stored Bloch vector has        *)
(* Euclidean norm 1 and finite components.                                 *)
C4_StoredVectorIsUnit ==
    /\ isFinite[state.x] /\ isFinite[state.y] /\ isFinite[state.z]
    /\ NormSq3[state] = One

(* a gate has acted on a vector off the coordinate axes, after a set *)
C4_Witness ==
    /\ controlsResetKey > 0
    /\ lastAction = "GATE APPLIED: T"
    /\ state \notin BasisVectors
    /\ angleDeg["x"] # Zero

(* C5: for every unit Bloch vector v, gate X applied twice returns v, and  *)
(* gate H applied twice returns v.                                         *)
C5_SelfInverseGates ==
    \A g \in {"X", "H"} :
        ops = <<"vec", "applyGateToVector:" \o g, "applyGateToVector:" \o g>> => vec = vec0

C5_Witness ==
    /\ ops = <<"vec", "applyGateToVector:H", "applyGateToVector:H">>
    /\ vec0 = Vec[Zero, <<0, 4, 9, 0>>, <<7, 0, 9, 0>>]

(* C6: from the north pole (0,0,1), gate H yields (1,0,0) and gate X       *)
(* yields (0,0,-1).                                                        *)
C6_NorthPoleGates ==
    /\ (ops = <<"vec", "applyGateToVector:H">> /\ vec0 = North) => vec = VecI[1, 0, 0]
    /\ (ops = <<"vec", "applyGateToVector:X">> /\ vec0 = North) => vec = VecI[0, 0, -1]

C6_Witness ==
    /\ ops = <<"vec", "applyGateToVector:X">>
    /\ vec0 = North

(* C7: applyGateToState keeps |alpha|^2 + |beta|^2 for every token and     *)
(* every amplitude pair, and the pair that applyGateToVector decodes       *)
(* (encode, then the gate) has |alpha|^2 + |beta|^2 = 1.                   *)
C7_GatesKeepNorm ==
    /\ (ops[1] = "amp" /\ \A i \in 2..Len(ops) : ops[i] \in StateGateOps)
           => NormSq[amp] = NormSq[amp0]
    /\ (Len(ops) >= 2 /\ ops[1] = "vec" /\ ops[2] = "extractQuantumAmplitudes"
           /\ \A i \in 3..Len(ops) : ops[i] \in StateGateOps)
           => NormSq[amp] = One

C7_Witness ==
    /\ ops = <<"amp", "applyGateToState:T", "applyGateToState:H">>
    /\ amp0 = <<<<<<1, 0, 3, 0>>, Zero>>, <<Zero, <<0, 1, 2, 0>>>>>>

(* C8: for a normalized amplitude pair, extractBlochVectorFromAmplitudes   *)
(* followed by extractQuantumAmplitudes yields the pair up to one global   *)
(* phase factor.                                                           *)
C8_PairRoundTrip ==
    (ops = <<"amp", "extractBlochVectorFromAmplitudes", "extractQuantumAmplitudes">>
        /\ NormSq[amp0] = One)
        => UpToGlobalPhase[amp, amp0]

(* the transforms of the gate table, with Y as ySign * (-i beta, i alpha) *)
GateTable ==
    [ab \in Complex \X Complex, gate \in STRING, ySign \in {-1, 1} |->
        CASE gate = "H" -> <<CScale[InvSqrt2, CAdd[ab[1], ab[2]]],
                             CScale[InvSqrt2, CSub[ab[1], ab[2]]]>>
          [] gate = "X" -> <<ab[2], ab[1]>>
          [] gate = "Y" -> <<CScale[QInt[ySign], CNeg[CMul[ImagUnit, ab[2]]]],
                             CScale[QInt[ySign], CMul[ImagUnit, ab[1]]]>>
          [] gate = "Z" -> <<ab[1], CNeg[ab[2]]>>
          [] gate = "S" -> <<ab[1], CMul[ImagUnit, ab[2]]>>
          [] gate = "T" -> <<ab[1], CMul[ab[2], EighthTurn]>>]

(* C9 as stated: gate Y maps (alpha, beta) to (-i beta, i alpha), and the  *)
(* other tokens to the transforms of the table.                            *)
C9_GateTableAsStated ==
    \A g \in GateTokens :
        ops = <<"amp", "applyGateToState:" \o g>> => amp = GateTable[amp0, g, 1]

(* C9: gate Y maps (alpha, beta) to (i beta, -i alpha), which is           *)
(* (-i beta, i alpha) times the global phase -1; H, X, Z, S, T map to the  *)
(* transforms of the table.                                                *)
C9_GateTable ==
    \A g \in GateTokens :
        ops = <<"amp", "applyGateToState:" \o g>> => amp = GateTable[amp0, g, -1]

C9_Witness ==
    /\ ops = <<"amp", "applyGateToState:Y">>
    /\ amp0 = <<<<<<1, 0, 2, 0>>, <<1, 0, 2, 0>>>>, <<<<-1, 0, 2, 0>>, <<1, 0, 2, 0>>>>>>

(* C10: in every variant, an apply-gate action with one of the six gate    *)
(* tokens replaces the session's Bloch vector with applyGateToVector of    *)
(* the current vector and the token.                                       *)
C10_GateReplacesVector ==
    [][\A g \in GateTokens :
          (applyGate(g) /\ Encodable[state])
              => state' = (IF variant = 2 THEN applyGateToVector2[state, g]
                                          ELSE applyGateToVector[state, g])]_vars

(* C11: a rotate call whose delta is NaN, Infinity or -Infinity passes no  *)
(* update to the host and leaves the session vector, the last-action text, *)
(* the active-state marker and the controls reset key unchanged.           *)
C11_NonFiniteDeltaIgnored ==
    [][\A axis \in Axes, deltaDeg \in {NaN, Infinity, <<-1, 0, 0, 0>>} :
          queueRotation(axis, deltaDeg)
              => UNCHANGED <<state, lastAction, activeState, controlsResetKey, queue>>]_vars

(* a rotation by NaN was issued after a rotation had turned the vector *)
C11_Witness ==
    /\ Len(issued) = 2
    /\ issued[2] = <<"rotate", "y", NaN>>
    /\ state = VecI[0, -1, 0]
    /\ queue = <<>>

(* C12: normalizeState returns (0,0,1) for the zero triple and for every   *)
(* triple with a NaN or infinite component, and no component of any result *)
(* is NaN or infinite.                                                     *)
C12_NormalizeTotal ==
    ops = <<"raw", "normalizeState">>
        => /\ isFinite[vec.x] /\ isFinite[vec.y] /\ isFinite[vec.z]
           /\ (\/ vec0 = VecI[0, 0, 0]
               \/ ~isFinite[vec0.x] \/ ~isFinite[vec0.y] \/ ~isFinite[vec0.z])
                  => vec = VecI[0, 0, 1]

C12_Witness ==
    /\ ops = <<"raw", "normalizeState">>
    /\ vec0 = Vec[<<-3, 0, 1, 0>>, NaN, Infinity]

(* the matrix of the right-handed rotation by deg degrees about an axis *)
RotationMatrix ==
    [axis \in Axes, deg \in Q |->
        LET rows == [c \in Q, s \in Q |->
                CASE axis = "x" -> <<<<One, Zero, Zero>>, <<Zero, c, QNeg[s]>>, <<Zero, s, c>>>>
                  [] axis = "y" -> <<<<c, Zero, s>>, <<Zero, One, Zero>>, <<QNeg[s], Zero, c>>>>
                  [] axis = "z" -> <<<<c, QNeg[s], Zero>>, <<s, c, Zero>>, <<Zero, Zero, One>>>>]
        IN  rows[CosTable[deg[1] % 360], SinTable[deg[1] % 360]]]

MatVec ==
    [mat \in Seq(Seq(Q)), v \in BlochVector |->
        LET row == [r \in Seq(Q) |->
                       QAdd[QAdd[QMul[r[1], v.x], QMul[r[2], v.y]], QMul[r[3], v.z]]]
        IN  Vec[row[mat[1]], row[mat[2]], row[mat[3]]]]

(* C13: rotateStateAboutAxis(v, axis, deg) is the product of v with the    *)
(* matrix of the right-handed rotation by deg degrees about the axis, and  *)
(* the component along the axis is returned as it was.                     *)
C13_RightHandedRotation ==
    \A axis \in Axes, deg \in RotationDegrees :
        ops = <<"unit", RotateOp[axis, deg]>>
            => /\ vec = MatVec[RotationMatrix[axis, deg], vec0]
               /\ vec[axis] = vec0[axis]

C13_Witness ==
    /\ ops = <<"unit", "rotateStateAboutAxis:z:90">>
    /\ vec0 = VecI[1, 0, 0]
    /\ vec = VecI[0, 1, 0]

(* the handler calls recorded in issued *)
IssuedCalls ==
    ({"rotate"} \X Axes \X Q) \cup ({"gate"} \X STRING) \cup {<<"reset">>}
        \cup ({"set"} \X [x : Q, y : Q, z : Q, name : STRING])

(* the product R_n ... R_1 v of the rotations of a list of rotate calls,   *)
(* the first call's matrix applied first; a delta that is 0 or not finite  *)
(* is no rotation                                                          *)
RECURSIVE ComposeRotations
ComposeRotations ==
    [calls \in Seq(IssuedCalls), v \in BlochVector |->
        IF calls = <<>> THEN v
        ELSE ComposeRotations[Tail(calls),
                 IF isFinite[Head(calls)[3]] /\ Head(calls)[3] # Zero
                 THEN MatVec[RotationMatrix[Head(calls)[2], Head(calls)[3]], v]
                 ELSE v]]

(* C14: once rendered, a sequence of rotate calls from the start leaves    *)
(* the session vector at the rotations applied one after another in issue  *)
(* order; and the order matters: x by 90 then y by 90 from (0,0,1) gives a *)
(* vector other than y by 90 then x by 90.                                 *)
C14_RotationsComposeInOrder ==
    /\ (queue = <<>> /\ \A i \in DOMAIN issued : issued[i][1] = "rotate")
           => state = ComposeRotations[issued, VecI[0, 0, 1]]
    /\ (queue = <<>> /\ issued = <<<<"rotate", "x", <<90, 0, 1, 0>>>>,
                                   <<"rotate", "y", <<90, 0, 1, 0>>>>>>)
           => state # ComposeRotations[<<<<"rotate", "y", <<90, 0, 1, 0>>>>,
                                         <<"rotate", "x", <<90, 0, 1, 0>>>>>>, VecI[0, 0, 1]]

C14_Witness ==
    /\ issued = <<<<"rotate", "x", <<90, 0, 1, 0>>>>, <<"rotate", "y", <<90, 0, 1, 0>>>>>>
    /\ queue = <<>>
    /\ state = VecI[0, -1, 0]
    /\ lastAction = "ROTATE: R_Y(90deg)"

(* C15: for every unit vector v, axis and angle d, rotating v about the    *)
(* axis by d and then about the same axis by -d returns v.                 *)
C15_InverseRotation ==
    \A axis \in Axes, deg \in RotationDegrees :
        ops = <<"unit", RotateOp[axis, deg], RotateOp[axis, QNeg[deg]]>> => vec = vec0

C15_Witness ==
    /\ ops = <<"unit", "rotateStateAboutAxis:z:90", "rotateStateAboutAxis:z:-90">>
    /\ vec0 = Vec[Zero, <<0, 4, 9, 0>>, <<7, 0, 9, 0>>]

SampleUnitVectors ==
    BasisVectors \cup {Vec[<<3, 0, 5, 0>>, Zero, <<-4, 0, 5, 0>>],
                       Vec[<<1, 0, 3, 0>>, <<-2, 0, 3, 0>>, <<2, 0, 3, 0>>],
                       Vec[Zero, <<0, 4, 9, 0>>, <<7, 0, 9, 0>>],
                       Vec[<<0, 1, 2, 0>>, <<-1, 0, 2, 0>>, <<1, 0, 2, 0>>]}

(* C16: a rotation by 0 degrees about any axis returns a normalized vector *)
(* as it is, and a rotate call with delta 0 passes no update to the host:  *)
(* the session vector and the last-action text stay as they are.           *)
C16_ZeroRotation ==
    /\ [](\A axis \in Axes, v \in SampleUnitVectors \cup {state} :
              rotateStateAboutAxis[v, axis, Zero] = v)
    /\ [][\A axis \in Axes :
              queueRotation(axis, Zero) => UNCHANGED <<state, lastAction, queue>>]_vars

C16_Witness ==
    /\ issued = <<<<"rotate", "x", <<45, 0, 1, 0>>>>, <<"rotate", "z", Zero>>>>
    /\ queue = <<>>
    /\ state = Vec[Zero, <<0, -1, 2, 0>>, <<0, 1, 2, 0>>]
    /\ lastAction = "ROTATE: R_X(45deg)"

(* C17: the session vector is (0,0,1) when the page starts, and a reset    *)
(* makes it (0,0,1) whatever the vector was before.                        *)
C17_ResetToNorthPole ==
    /\ state = VecI[0, 0, 1]
    /\ [][reset => state' = VecI[0, 0, 1]]_vars

(* a reset has acted on a rotated vector; the controls still show the angle *)
C17_Witness ==
    /\ lastAction \in {"SYSTEM RESET", "Reset rotations"}
    /\ controlsResetKey = 1
    /\ angleDeg["x"] = <<45, 0, 1, 0>>
    /\ angleDeg["z"] = <<180, 0, 1, 0>>
    /\ state = North

(* w is a positive multiple of v: their cross product is 0 and their dot   *)
(* product is positive                                                     *)
SameDirection ==
    [w \in BlochVector, v \in BlochVector |->
        /\ QSub[QMul[w.y, v.z], QMul[w.z, v.y]] = Zero
        /\ QSub[QMul[w.z, v.x], QMul[w.x, v.z]] = Zero
        /\ QSub[QMul[w.x, v.y], QMul[w.y, v.x]] = Zero
        /\ QSign[QAdd[QAdd[QMul[w.x, v.x], QMul[w.y, v.y]], QMul[w.z, v.z]]] > 0]

(* C18: a set call with a finite triple that is not (0,0,0) stores the     *)
(* unit vector of the triple's direction, and a set call with the zero     *)
(* triple or a non-finite component stores (0,0,1); the prior vector has   *)
(* no part in the result.                                                  *)
C18_SetStoresUnitDirection ==
    [][\A call \in SetCalls :
          set(call)
              => IF /\ isFinite[call.x] /\ isFinite[call.y] /\ isFinite[call.z]
                    /\ <<call.x, call.y, call.z>> # <<Zero, Zero, Zero>>
                 THEN /\ NormSq3[state'] = One
                      /\ SameDirection[state', Vec[call.x, call.y, call.z]]
                 ELSE state' = VecI[0, 0, 1]]_vars

(* what one handler call does to a vector when it is applied on its own *)
applyIssued ==
    [call \in IssuedCalls, v \in BlochVector |->
        CASE call[1] = "rotate" ->
                 IF isFinite[call[3]] /\ call[3] # Zero
                 THEN normalizeState[rotateStateAboutAxis[normalizeState[v], call[2], call[3]]]
                 ELSE v
          [] call[1] = "gate" -> IF variant = 3 THEN v ELSE applyGateToVector[v, call[2]]
          [] call[1] = "reset" -> VecI[0, 0, 1]
          [] call[1] = "set" -> normalizeState[Vec[call[2].x, call[2].y, call[2].z]]]

(* the handler calls applied one after another, each to the result of the *)
(* call before it                                                         *)
RECURSIVE FoldIssued
FoldIssued ==
    [calls \in Seq(IssuedCalls), v \in BlochVector |->
        IF calls = <<>> THEN v ELSE FoldIssued[Tail(calls), applyIssued[Head(calls), v]]]

(* C19: when handler calls are queued before the host renders, the session *)
(* vector is at every moment the sequential fold of a prefix of the calls  *)
(* over the initial vector (never a mixture of components of two vectors), *)
(* and once the queue is rendered it is the fold of all the calls, in      *)
(* issue order, none lost.                                                 *)
C19_UpdatesFoldInIssueOrder ==
    /\ \E n \in 0..Len(issued) : state = FoldIssued[SubSeq(issued, 1, n), VecI[0, 0, 1]]
    /\ queue = <<>> => state = FoldIssued[issued, VecI[0, 0, 1]]

(* three calls were queued together and rendered at once *)
C19_Witness ==
    /\ issued = <<<<"rotate", "x", <<90, 0, 1, 0>>>>, <<"gate", "S">>,
                  <<"rotate", "z", <<45, 0, 1, 0>>>>>>
    /\ queue = <<>>
    /\ lastAction = "ROTATE: R_Z(45deg)"
    /\ state \notin BasisVectors

(* C20: for every unit vector and every token, applyGateToVector with the  *)
(* azimuth wrapped to [0, 2 pi) (first variant) returns what               *)
(* applyGateToVector with the raw atan2 azimuth (second variant) returns.  *)
C20_AzimuthRangeImmaterial ==
    \A g \in GateInputs :
        ops = <<"vec", "applyGateToVector:" \o g>> => vec = applyGateToVector2[vec0, g]

(* a vector with y < 0, whose azimuth the first variant wraps *)
C20_Witness ==
    /\ ops = <<"vec", "applyGateToVector:T">>
    /\ vec0 = Vec[Zero, <<0, -4, 9, 0>>, <<7, 0, 9, 0>>]

(* C23: for every unit vector v, applyGateToVector(v, g) for g = X, Y, Z   *)
(* equals rotateStateAboutAxis(v, axis, 180) about x, y, z, and for g = S  *)
(* equals rotateStateAboutAxis(v, 'z', 90); applying S twice equals        *)
(* applying Z once.                                                        *)
C23_GatesAsRotations ==
    /\ ops = <<"vec", "applyGateToVector:X">> => vec = rotateStateAboutAxis[vec0, "x", QInt[180]]
    /\ ops = <<"vec", "applyGateToVector:Y">> => vec = rotateStateAboutAxis[vec0, "y", QInt[180]]
    /\ ops = <<"vec", "applyGateToVector:Z">> => vec = rotateStateAboutAxis[vec0, "z", QInt[180]]
    /\ ops = <<"vec", "applyGateToVector:S">> => vec = rotateStateAboutAxis[vec0, "z", QInt[90]]
    /\ ops = <<"vec", "applyGateToVector:S", "applyGateToVector:S">>
           => vec = applyGateToVector[vec0, "Z"]

(* C21: a reset or set step adds exactly one to the controls reset key,   *)
(* and no other step changes the key; the effect it schedules sets every   *)
(* control's angle to 0 and runs before any other input is handled, so the *)
(* first delta a control passes after it is measured from 0; a gate step   *)
(* leaves the reset key and the angles as they are, and a step of a        *)
(* control leaves the reset key and the angles of the other controls as    *)
(* they are; the session vector has the components x, y, z only.           *)
C21_ResetKeyZeroesControls ==
    /\ [](/\ DOMAIN state = {"x", "y", "z"}
          /\ controlsResetKey \in Nat
          /\ (~effectsPending /\ passed.axes = {}) => angleDeg = [a \in Axes |-> Zero])
    /\ [][/\ (lastAction' = "SYSTEM RESET"
                  \/ lastAction' \in {"STATE SET: " \o call.name : call \in StateButtons})
                => \/ /\ ~effectsPending
                      /\ effectsPending'
                      /\ controlsResetKey' = controlsResetKey + 1
                   \/ /\ effectsPending
                      /\ lastAction' = lastAction
          /\ controlsResetKey' # controlsResetKey => (~effectsPending /\ effectsPending')
          /\ effectsPending
                => /\ ~effectsPending'
                   /\ angleDeg' = [a \in Axes |-> Zero]
                   /\ UNCHANGED <<state, controlsResetKey, lastAction, activeState>>
          /\ (passed'.last # <<>> /\ passed'.last[1] \notin passed.axes)
                => passed'.last = <<passed'.last[1], angleDeg'[passed'.last[1]], Zero>>
          /\ \A a \in Axes :
                (~effectsPending /\ angleDeg'[a] # angleDeg[a])
                    => (passed'.last # <<>> /\ passed'.last[1] = a)
          /\ lastAction' \in {"GATE APPLIED: " \o g : g \in ControlGates}
                => UNCHANGED <<controlsResetKey, angleDeg>>]_vars

(* after a state button, the y control passed its first delta, from 0 *)
C21_Witness ==
    /\ controlsResetKey = 1
    /\ base = VecI[1, 0, 0]
    /\ ~effectsPending
    /\ passed.last = <<"y", QInt[90], Zero>>
    /\ passed.axes = {"y"}
    /\ angleDeg = [a \in Axes |-> IF a = "y" THEN QInt[90] ELSE Zero]

(* C22: the angle of every axis control is finite and within [-180, 180];  *)
(* every delta a control passes to onRotate is finite, not 0, within       *)
(* [-360, 360] and equal to the control's new angle minus the angle it     *)
(* held; and once the effect of a reset or set has run, the sum of the     *)
(* deltas a control has passed since that reset or set is its angle.       *)
C22_ControlAngleAndDeltas ==
    /\ [](/\ \A a \in Axes :
                /\ isFinite[angleDeg[a]]
                /\ ~QLess[angleDeg[a], QInt[-180]]
                /\ ~QLess[QInt[180], angleDeg[a]]
          /\ ~effectsPending => \A a \in Axes : passed.sum[a] = angleDeg[a])
    /\ [][(passed'.last # <<>> /\ passed' # passed)
             => /\ isFinite[passed'.last[2]]
                /\ passed'.last[2] # Zero
                /\ ~QLess[passed'.last[2], QInt[-360]]
                /\ ~QLess[QInt[360], passed'.last[2]]
                /\ passed'.last[3] = angleDeg[passed'.last[1]]
                /\ passed'.last[2]
                       = QSub[angleDeg'[passed'.last[1]], angleDeg[passed'.last[1]]]]_vars

(* the x control went from 0 to 90 and, by an input of 270 clamped to 180, *)
(* on to 180; the y control went to 180 and back to 0                      *)
C22_Witness ==
    /\ angleDeg = [a \in Axes |-> IF a = "x" THEN QInt[180] ELSE Zero]
    /\ passed.last = <<"x", QInt[90], QInt[90]>>
    /\ passed.sum["x"] = QInt[180]
    /\ passed.axes = {"x", "y"}

(* C24: while no gate was applied since the vector b was established (by   *)
(* a reset or set, or by the construction of the page) and the control of  *)
(* one axis only has passed deltas since, the session vector is b rotated  *)
(* about that axis by the angle the control shows.                         *)
C24_SingleControlFollowsAngle ==
    \A a \in Axes :
        (~gated /\ passed.axes = {a})
            => state = MatVec[RotationMatrix[a, angleDeg[a]], base]

(* after the |+> button the y control went to 90 and on to 180 *)
C24_Witness ==
    /\ controlsResetKey = 1
    /\ base = VecI[1, 0, 0]
    /\ ~gated
    /\ passed.axes = {"y"}
    /\ passed.last = <<"y", QInt[90], QInt[90]>>
    /\ angleDeg["y"] = QInt[180]
    /\ state = VecI[-1, 0, 0]

(* C25 as stated: after a reset or set that established b and with no     *)
(* gate applied since, whenever the three controls show 0 the session      *)
(* vector is b.                                                            *)
C25_ZeroControlsRestoreBaseAsStated ==
    (/\ controlsResetKey > 0
     /\ ~gated
     /\ ~effectsPending
     /\ angleDeg = [a \in Axes |-> Zero])
        => state = base

(* C25: while no gate was applied since the vector b was established and   *)
(* no control has passed a delta while another control was off 0, the      *)
(* session vector is b whenever the three controls show 0.                 *)
C25_ZeroControlsRestoreBase ==
    (/\ ~gated
     /\ ~effectsPending
     /\ ~passed.crossed
     /\ angleDeg = [a \in Axes |-> Zero])
        => state = base

(* after the |+i> button the x control went to 90 and back to 0, then the  *)
(* z control went to 90 and back to 0                                      *)
C25_Witness ==
    /\ controlsResetKey = 1
    /\ base = VecI[0, 1, 0]
    /\ ~gated
    /\ ~passed.crossed
    /\ passed.axes = {"x", "z"}
    /\ passed.last = <<"z", QInt[-90], QInt[90]>>
    /\ angleDeg = [a \in Axes |-> Zero]
    /\ state = VecI[0, 1, 0]

(* the basis vector of each state name *)
NamedVector ==
    [name \in {"|0>", "|1>", "|+>", "|->", "|+i>", "|-i>"} |->
        CASE name = "|0>" -> VecI[0, 0, 1]
          [] name = "|1>" -> VecI[0, 0, -1]
          [] name = "|+>" -> VecI[1, 0, 0]
          [] name = "|->" -> VecI[-1, 0, 0]
          [] name = "|+i>" -> VecI[0, 1, 0]
          [] name = "|-i>" -> VecI[0, -1, 0]]

(* C26: on the first page the active-state marker is empty or one of the   *)
(* six state names, and while it is a name the session vector is that      *)
(* name's basis vector; every step in which a control passes a delta (a    *)
(* rotate with a finite delta other than 0) and every gate step leaves the *)
(* marker empty.                                                           *)
C26_MarkerNamesTheVector ==
    /\ [](/\ activeState \in {""} \cup DOMAIN NamedVector
          /\ activeState # "" => state = NamedVector[activeState])
    /\ [][/\ (passed'.last # <<>> /\ passed' # passed) => activeState' = ""
          /\ lastAction' \in {"GATE APPLIED: " \o g : g \in ControlGates}
                => activeState' = ""]_vars

(* the |-i> button was pressed after a control had cleared the marker *)
C26_Witness ==
    /\ activeState = "|-i>"
    /\ state = VecI[0, -1, 0]
    /\ lastAction = "STATE SET: |-i>"
    /\ angleDeg # [a \in Axes |-> Zero]
    /\ effectsPending

=============================================================================
